---------------------------- MODULE Spec2Model ----------------------------
(***************************************************************************)
(* mastohuman: incremental mirror of the followed accounts' posts and the  *)
(* per-account summary cache.                                              *)
(*                                                                         *)
(* The store is modelled as its five tables (sets of rows), the remote     *)
(* platform as the following list and one newest-first timeline per        *)
(* account.  The two commands that write the store are one action each:    *)
(* Ingest (IngestionManager.run_pipeline) and Summarize                    *)
(* (Summarizer.process_all).  Time is an integer clock in seconds.         *)
(***************************************************************************)
EXTENDS Integers, Sequences, FiniteSets, TLC

VARIABLES
    now,        \* datetime.now(timezone.utc), in seconds
    ticks,      \* how often the clock was advanced (bounded by MaxTicks)
    following,  \* remote: the handles the user follows
    display,    \* remote: handle -> display name ("" when unset)
    timeline,   \* remote: handle -> posts, newest first
    nextId,     \* remote: id of the next post published
    accounts,   \* table Account
    statuses,   \* table Status
    summaries,  \* table Summary
    persondocs, \* table PersonDoc
    runs,       \* table IngestRun, in insertion order
    syncLog,    \* handle -> the last two _sync_author calls (observer)
    sumLog,     \* handle -> the last two _process_account calls (observer)
    runLog      \* the last run_pipeline or interrupted command (observer)

clock  == <<now, ticks>>
remote == <<following, display, timeline, nextId>>
store  == <<accounts, statuses, summaries, persondocs, runs>>
logs   == <<syncLog, sumLog, runLog>>
vars   == <<now, ticks, following, display, timeline, nextId,
            accounts, statuses, summaries, persondocs, runs, syncLog, sumLog,
            runLog>>

---------------------------------------------------------------------------
(* Bounds of the model *)

MaxTicks == 1      \* clock advances per behaviour
MaxPosts == 1      \* posts published remotely after the initial state
MaxRuns  == 2      \* rows of IngestRun
PageLen  == 2      \* posts per page of the remote timeline
FollowPageLen == 1 \* accounts per page of the remote following list
max_profile_statuses == 3   \* Settings.max_profile_statuses

(* Program constants *)

max_profile_age_days == 92
ThrottleMinutes == 15
RefreshHours == 4
ActiveHours == 24
since_hours == 24

AgeSecs      == max_profile_age_days * 86400
ThrottleSecs == ThrottleMinutes * 60
RefreshSecs  == RefreshHours * 3600
ActiveSecs   == ActiveHours * 3600

NULL == -1         \* a NULL datetime column; every real timestamp is >= 0
T0 == AgeSecs + 3  \* the clock of the initial state

Accts   == {"alice", "bob"}
AcctSeq == <<"alice", "bob">>   \* the order of the remote following list
Names   == {"", "Al"}

---------------------------------------------------------------------------
(* Generic helpers *)

Min(a, b) == IF a <= b THEN a ELSE b

RECURSIVE Chunk(_, _)
Chunk(s, n) ==
    IF Len(s) = 0 THEN <<>>
    ELSE IF Len(s) <= n THEN <<s>>
    ELSE <<SubSeq(s, 1, n)>> \o Chunk(SubSeq(s, n + 1, Len(s)), n)

RECURSIVE SelectSeq2(_, _)
SelectSeq2(s, S) ==
    IF s = <<>> THEN <<>>
    ELSE (IF Head(s) \in S THEN <<Head(s)>> ELSE <<>>) \o SelectSeq2(Tail(s), S)


---------------------------------------------------------------------------
(* The remote platform *)

\* A text is its first 1000 characters (head) and what follows (rest).
Text(h, r) == [head |-> h, rest |-> r]
Contents == {Text("a", ""), Text("a", "x")}

Post(id, t, kind, c) ==
    [id |-> id, created_at |-> t, reblog |-> (kind = "boost"),
     reply |-> (kind = "reply"), content |-> c]

\* Creation time of the newest post of a timeline (NULL when it is empty).
NewestAt(a) == IF timeline[a] = <<>> THEN NULL ELSE timeline[a][1].created_at

\* MastodonClient.paginate over get_account_statuses: the pages the generator
\* can yield, newest first.  The request asks the server to leave out reblogs;
\* a boost in a timeline is one the server returns all the same, which the
\* loop of _sync_author is written to skip.
TimelinePages(a) == Chunk(timeline[a], PageLen)

\* MastodonClient.paginate over get_account_following.
FollowingPages == Chunk(SelectSeq2(AcctSeq, following), FollowPageLen)

---------------------------------------------------------------------------
(* etl/pipeline.py *)

AccountRows(rows, a) == {r \in rows : r.acct = a}

\* A stand-in for ShouldRefreshFollowing that still skips when the list was
\* updated exactly 4 hours ago.
ShouldRefreshFollowingLate(force) ==
    IF force THEN TRUE
    ELSE IF accounts = {} THEN TRUE
    ELSE LET last_update == CHOOSE t \in {r.last_seen_at : r \in accounts} :
                                \A r \in accounts : r.last_seen_at <= t
         IN ~(now - last_update <= RefreshSecs)

ShouldRefreshFollowing(force) ==
    IF force THEN TRUE
    ELSE IF accounts = {} THEN TRUE
    ELSE LET last_update == CHOOSE t \in {r.last_seen_at : r \in accounts} :
                                \A r \in accounts : r.last_seen_at <= t
         IN ~(now - last_update < RefreshSecs)

\* A stand-in for UpsertAccount that adds a row without looking for one.
UpsertAccountAsNew(rows, a) ==
    rows \cup {[acct |-> a, display_name |-> display[a], last_seen_at |-> now,
                last_fetch_at |-> NULL]}

UpsertAccount(rows, a) ==
    LET found    == AccountRows(rows, a)
        existing == IF found = {}
                    THEN [acct |-> a, display_name |-> "", last_seen_at |-> now,
                          last_fetch_at |-> NULL]
                    ELSE CHOOSE r \in found : TRUE
        updated  == [existing EXCEPT !.display_name = display[a],
                                     !.last_seen_at = now]
    IN (rows \ {existing}) \cup {updated}

RECURSIVE UpsertAll(_, _)
UpsertAll(rows, page) ==
    IF page = <<>> THEN rows
    ELSE UpsertAll(UpsertAccount(rows, Head(page)), Tail(page))

\* failAt = k > 0: the k-th request of the generator raises a network error
\* (k = 1 is the initial fetch); failAt = 0: none does.
RECURSIVE SyncFollowingList(_, _, _, _)
SyncFollowingList(rows, pages, k, failAt) ==
    IF failAt = k \/ k > Len(pages) THEN rows
    ELSE SyncFollowingList(UpsertAll(rows, pages[k]), pages, k + 1, failAt)

\* The Status row of a post; content stands for the text normalize_content
\* extracts from the post's HTML.
NewStatus(post, acct) ==
    [remote_id |-> post.id, account_acct |-> acct,
     created_at |-> post.created_at, content_text |-> post.content,
     is_reply |-> post.reply, is_boost |-> FALSE]

\* A stand-in for OlderThanCutoff that takes the cutoff date itself as old.
OlderThanCutoffOrAt(created_at, cutoff_date) == created_at <= cutoff_date

OlderThanCutoff(created_at, cutoff_date) == created_at < cutoff_date

\* A stand-in for IsBoost that takes no post for a boost.
IsBoostNever(post) == FALSE

\* post.get("reblog"): the post carries a reblogged status.
IsBoost(post) == post.reblog

\* A stand-in for AlreadyStored that finds no row.
AlreadyStoredNever(rows, remote_id) == FALSE

\* The existence check of the loop: a row with the post's remote id.
AlreadyStored(rows, remote_id) == \E s \in rows : s.remote_id = remote_id

\* The loop over the posts of one page.  st.rows is the session's view of the
\* Status table (autoflush makes the rows added earlier on the page visible).
RECURSIVE ScanPage(_, _, _, _, _)
ScanPage(page, i, acct, cutoff_date, st) ==
    IF i > Len(page) THEN st
    ELSE LET post == page[i] IN
         IF OlderThanCutoff(post.created_at, cutoff_date)
         THEN [st EXCEPT !.cut = TRUE]
         ELSE IF IsBoost(post)
         THEN ScanPage(page, i + 1, acct, cutoff_date, st)
         ELSE IF AlreadyStored(st.rows, post.id)
         THEN ScanPage(page, i + 1, acct, cutoff_date,
                       [st EXCEPT !.existing = @ + 1])
         ELSE ScanPage(page, i + 1, acct, cutoff_date,
                       [st EXCEPT !.rows = @ \cup {NewStatus(post, acct)},
                                  !.fetched = @ + 1])

\* A stand-in for OverlapStop that never stops.
OverlapStopNever(force_fetch, page_items_count, page_existing_count) == FALSE

\* A stand-in for OverlapStop that stops on the first page that holds a
\* stored post.
OverlapStopAnyExisting(force_fetch, page_items_count, page_existing_count) ==
    ~force_fetch /\ page_existing_count > 0

\* A stand-in for OverlapStop that stops a forced sync too.
OverlapStopThoughForced(force_fetch, page_items_count, page_existing_count) ==
    page_items_count > 0 /\ page_existing_count = page_items_count

OverlapStop(force_fetch, page_items_count, page_existing_count) ==
    ~force_fetch /\ page_items_count > 0
    /\ page_existing_count = page_items_count

\* A stand-in for MaxCountStop that never stops.
MaxCountStopNever(fetched_count) == FALSE

MaxCountStop(fetched_count) == fetched_count >= max_profile_statuses

\* The loop over the pages.  Returns the Status table after the sync, the
\* number of pages read and why the loop ended.  k counts the requests of the
\* generator, the one that finds the history exhausted included.
RECURSIVE SyncPages(_, _, _, _, _, _, _, _)
SyncPages(pages, k, failAt, acct, force_fetch, cutoff_date, rows, fetched) ==
    IF failAt = k
    THEN [rows |-> rows, fetched |-> fetched, pages |-> k - 1, stop |-> "neterr"]
    ELSE IF k > Len(pages)
    THEN [rows |-> rows, fetched |-> fetched, pages |-> k - 1, stop |-> "end"]
    ELSE LET st == ScanPage(pages[k], 1, acct, cutoff_date,
                            [rows |-> rows, existing |-> 0,
                             fetched |-> fetched, cut |-> FALSE])
         IN IF st.cut
            THEN [rows |-> st.rows, fetched |-> st.fetched, pages |-> k,
                  stop |-> "cutoff"]
            ELSE IF OverlapStop(force_fetch, Len(pages[k]), st.existing)
            THEN [rows |-> st.rows, fetched |-> st.fetched, pages |-> k,
                  stop |-> "overlap"]
            ELSE IF MaxCountStop(st.fetched)
            THEN [rows |-> st.rows, fetched |-> st.fetched, pages |-> k,
                  stop |-> "maxcount"]
            ELSE SyncPages(pages, k + 1, failAt, acct, force_fetch,
                           cutoff_date, st.rows, st.fetched)

\* A stand-in for VisibleAfterCrash that shows the rows the session had
\* added or deleted when the process ended.
VisibleAfterCrashPending(committed, pending) == pending

\* What the store shows when the process ends between two commits: the
\* session is closed without a commit and its pending changes are dropped.
VisibleAfterCrash(committed, pending) == committed

\* The loop over the pages, left by an interrupt while post crashPost + 1 of
\* page crashPage is read (crashPage beyond the last page read: after the
\* loop, before _mark_account_synced commits).  committed is the Status
\* table as of the last commit.
RECURSIVE SyncPagesInterrupted(_, _, _, _, _, _, _, _, _)
SyncPagesInterrupted(pages, k, crashPage, crashPost, acct, force_fetch, cutoff_date, committed, fetched) ==
    IF k > Len(pages) THEN committed
    ELSE LET read == IF k = crashPage
                     THEN SubSeq(pages[k], 1, Min(crashPost, Len(pages[k])))
                     ELSE pages[k]
             st == ScanPage(read, 1, acct, cutoff_date,
                            [rows |-> committed, existing |-> 0,
                             fetched |-> fetched, cut |-> FALSE])
         IN IF k = crashPage \/ st.cut
            THEN VisibleAfterCrash(committed, st.rows)
            ELSE IF OverlapStop(force_fetch, Len(pages[k]), st.existing)
                     \/ MaxCountStop(st.fetched)
            THEN st.rows
            ELSE SyncPagesInterrupted(pages, k + 1, crashPage, crashPost, acct,
                                      force_fetch, cutoff_date, st.rows,
                                      st.fetched)

\* A stand-in for Throttled that throttles a forced call too.
ThrottledThoughForced(account, force_fetch) ==
    account.last_fetch_at # NULL /\ now - account.last_fetch_at < ThrottleSecs

Throttled(account, force_fetch) ==
    ~force_fetch /\ account.last_fetch_at # NULL
    /\ now - account.last_fetch_at < ThrottleSecs

CutoffDate == now - AgeSecs

\* A stand-in for MarkAccountSynced that leaves last_fetch_at as it was.
MarkAccountSyncedNot(rows, account) == rows

MarkAccountSynced(rows, account) ==
    (rows \ {account}) \cup {[account EXCEPT !.last_fetch_at = now]}

\* What the observer records of one _sync_author call.
SyncEntry(account, force_fetch, stop, pages, before, after) ==
    [force |-> force_fetch, stop |-> stop, pages |-> pages,
     requests |-> IF stop = "throttle" THEN 0
                  ELSE IF stop \in {"neterr", "end"} THEN pages + 1 ELSE pages,
     remote |-> timeline[account.acct],
     new |-> {s.remote_id : s \in after} \ {s.remote_id : s \in before},
     at |-> now, fetch_before |-> account.last_fetch_at, prev |-> <<>>]

SyncPrev(e) == [force |-> e.force, stop |-> e.stop, remote |-> e.remote]

\* The observer keeps the last call and, under prev, what the call before it
\* saw and did (<<>> when there was none).
KeepSync(log, e) ==
    IF Len(log) = 0 THEN <<e>> ELSE <<[e EXCEPT !.prev = <<SyncPrev(log[1])>>]>>

\* _sync_author on db = [accounts, statuses, log]; failAt as above.
SyncAuthor(db, acct, force_fetch, failAt) ==
    LET found == AccountRows(db.accounts, acct) IN
    IF found = {} THEN db
    ELSE
    LET account == CHOOSE r \in found : TRUE IN
    IF Throttled(account, force_fetch)
    THEN [db EXCEPT !.log[acct] =
             KeepSync(@, SyncEntry(account, force_fetch, "throttle", 0,
                                   db.statuses, db.statuses))]
    ELSE LET r == SyncPages(TimelinePages(acct), 1, failAt, acct,
                            force_fetch, CutoffDate, db.statuses, 0)
         IN [accounts |-> MarkAccountSynced(db.accounts, account),
             statuses |-> r.rows,
             log |-> [db.log EXCEPT ![acct] =
                         KeepSync(@, SyncEntry(account, force_fetch, r.stop,
                                               r.pages, db.statuses, r.rows))]]

\* A stand-in for SyncTargets that gives up the loop at the first account
\* whose pagination a network error ended.
RECURSIVE SyncTargetsUntilError(_, _, _, _)
SyncTargetsUntilError(db, targets, force_fetch, fail) ==
    IF targets = <<>> THEN db
    ELSE LET next == SyncAuthor(db, Head(targets), force_fetch,
                                fail[Head(targets)])
         IN IF Len(next.log[Head(targets)]) > 0
                /\ next.log[Head(targets)][1].stop = "neterr"
            THEN next
            ELSE SyncTargetsUntilError(next, Tail(targets), force_fetch, fail)

\* run_pipeline: for account in targets.
RECURSIVE SyncTargets(_, _, _, _)
SyncTargets(db, targets, force_fetch, fail) ==
    IF targets = <<>> THEN db
    ELSE SyncTargets(SyncAuthor(db, Head(targets), force_fetch,
                                fail[Head(targets)]),
                     Tail(targets), force_fetch, fail)

\* The target query: the active accounts by last_fetch_at ascending (NULL
\* sorts first); rows with equal keys come in either order.
ActiveRows(rows) == {r \in rows : r.last_seen_at >= now - ActiveSecs}

RECURSIVE Perms(_)
Perms(S) ==
    IF S = {} THEN {<<>>}
    ELSE UNION {{<<x>> \o p : p \in Perms(S \ {x})} : x \in S}

\* A stand-in for TargetOrders in which NULL sorts last.
TargetOrdersNullsLast(rows) ==
    {[i \in 1..Len(p) |-> p[i].acct] :
        p \in {q \in Perms(ActiveRows(rows)) :
                 \A i, j \in 1..Len(q) :
                    i < j => \/ q[j].last_fetch_at = NULL
                             \/ /\ q[i].last_fetch_at # NULL
                                /\ q[i].last_fetch_at <= q[j].last_fetch_at}}

\* A stand-in for TargetOrders that takes the last fetched accounts first.
TargetOrdersNewestFirst(rows) ==
    {[i \in 1..Len(p) |-> p[i].acct] :
        p \in {q \in Perms(ActiveRows(rows)) :
                 \A i, j \in 1..Len(q) :
                    i < j => q[i].last_fetch_at >= q[j].last_fetch_at}}

TargetOrders(rows) ==
    {[i \in 1..Len(p) |-> p[i].acct] :
        p \in {q \in Perms(ActiveRows(rows)) :
                 \A i, j \in 1..Len(q) :
                    i < j => q[i].last_fetch_at <= q[j].last_fetch_at}}

Limited(order, limit) ==
    IF limit # 0 THEN SubSeq(order, 1, Min(limit, Len(order))) ELSE order

---------------------------------------------------------------------------
(* etl/normalize.py, llm/provider.py *)

llm_provider == "openai"

\* strftime("%Y-%m-%d %H:%M"): the timestamp to the minute.
Minute(t) == t \div 60

\* content[:1000] + "[...]" when the text is longer than 1000 characters.
Truncate(c) == IF c.rest # "" THEN [head |-> c.head, rest |-> "[...]"] ELSE c

\* create_person_document_text: the header and one line per status.
PersonDocumentText(account, sel) ==
    [display |-> IF account.display_name # "" THEN account.display_name
                 ELSE account.acct,
     acct    |-> account.acct,
     lines   |-> [i \in 1..Len(sel) |->
                    <<Minute(sel[i].created_at), Truncate(sel[i].content_text)>>]]

\* hashlib.sha256(...).hexdigest(), taken as free of collisions.
Sha256(text) == <<"sha256", text>>

\* select(Status) of the account's original posts, newest first, limited.
RECURSIVE NewestFirst(_, _)
NewestFirst(S, n) ==
    IF S = {} \/ n = 0 THEN <<>>
    ELSE LET m == CHOOSE x \in S : \A y \in S : y.created_at <= x.created_at
         IN <<m>> \o NewestFirst(S \ {m}, n - 1)

SelectedStatuses(acct) ==
    NewestFirst({s \in statuses :
                    s.account_acct = acct /\ ~s.is_reply /\ ~s.is_boost},
                max_profile_statuses)

\* OpenAIProvider.generate_summary: the model's output, or the fallback.
GenerateSummary(ok) ==
    IF ok THEN [headline |-> "generated", blurb |-> "generated"]
    ELSE [headline |-> "Summary Unavailable",
          blurb |-> "Could not generate summary."]

\* A stand-in for CacheHit that never finds the stored Summary.
CacheHitNever(existing_sum, force) == FALSE

CacheHit(existing_sum, force) == existing_sum # {} /\ ~force

\* What the observer records of one _process_account call.
SumEntry(db, account, force, outcome, sel, doc_hash, calls) ==
    [force |-> force, outcome |-> outcome, hash |-> doc_hash,
     selected |-> [i \in 1..Len(sel) |-> sel[i].remote_id], calls |-> calls,
     sum_before |-> {r \in db.summaries : r.account_acct = account.acct},
     doc_before |-> {r \in db.persondocs : r.account_acct = account.acct},
     prev |-> <<>>]

SumPrev(e) ==
    [force |-> e.force, outcome |-> e.outcome, hash |-> e.hash,
     selected |-> e.selected]

\* The observer keeps the last call and, under prev, what the call before it
\* computed (<<>> when there was none).
KeepSum(log, e) ==
    IF Len(log) = 0 THEN <<e>> ELSE <<[e EXCEPT !.prev = <<SumPrev(log[1])>>]>>

NewSummary(acct, doc_hash, result) ==
    [account_acct |-> acct, doc_hash |-> doc_hash, headline |-> result.headline,
     blurb |-> result.blurb, created_at |-> now]

NewPersonDoc(acct, doc_hash, doc_text) ==
    [account_acct |-> acct, doc_hash |-> doc_hash, doc_text |-> doc_text,
     generated_at |-> now]

\* A stand-in for ReplaceRows that adds the new row and leaves the old one.
AppendRow(rows, old, new) == rows \cup {new}

\* session.delete of the account's old row, if any, and session.add of the
\* new one.
ReplaceRows(rows, old, new) == (rows \ old) \cup {new}

\* _process_account, left by an interrupt before its commit: after the new
\* Summary was added (step 1) or after the new PersonDoc was added too
\* (step 2).
ProcessAccountInterrupted(db, account, force, genOk, step) ==
    LET acct     == account.acct
        sel      == SelectedStatuses(acct)
        doc_text == PersonDocumentText(account, sel)
        doc_hash == Sha256(doc_text)
        existing_sum == {r \in db.summaries :
                            r.account_acct = acct /\ r.doc_hash = doc_hash}
        existing == {r \in db.summaries : r.account_acct = acct}
        old_doc  == {r \in db.persondocs : r.account_acct = acct}
        new_summary == NewSummary(acct, doc_hash, GenerateSummary(genOk))
        new_doc  == NewPersonDoc(acct, doc_hash, doc_text)
        step1    == [summaries  |-> ReplaceRows(db.summaries, existing, new_summary),
                     persondocs |-> db.persondocs]
        step2    == [step1 EXCEPT
                        !.persondocs = ReplaceRows(db.persondocs, old_doc, new_doc)]
    IN IF sel = <<>> \/ CacheHit(existing_sum, force)
           \/ llm_provider \notin {"openai", "openrouter"}
       THEN db
       ELSE VisibleAfterCrash(db, IF step = 1 THEN step1 ELSE step2)

\* _process_account on db = [summaries, persondocs, log, raised].  genOk: the
\* generation call succeeds.  insertFirst: the flush emits the INSERT of the
\* new row before the DELETE of the old one, which the UNIQUE constraint on
\* account_acct rejects (IntegrityError; the transaction is rolled back and
\* the exception leaves process_all).
ProcessAccount(db, account, force, genOk, insertFirst) ==
    LET acct     == account.acct
        sel      == SelectedStatuses(acct)
        doc_text == PersonDocumentText(account, sel)
        doc_hash == Sha256(doc_text)
        existing_sum == {r \in db.summaries :
                            r.account_acct = acct /\ r.doc_hash = doc_hash}
        existing == {r \in db.summaries : r.account_acct = acct}
        old_doc  == {r \in db.persondocs : r.account_acct = acct}
        result   == GenerateSummary(genOk)
        new_summary == NewSummary(acct, doc_hash, result)
        new_doc  == NewPersonDoc(acct, doc_hash, doc_text)
        logged(outcome, h, calls) ==
            [db.log EXCEPT ![acct] =
                KeepSum(@, SumEntry(db, account, force, outcome, sel, h, calls))]
    IN IF sel = <<>>
       THEN [db EXCEPT !.log = logged("nostatuses", <<>>, 0)]
       ELSE IF CacheHit(existing_sum, force)
       THEN [db EXCEPT !.log = logged("cached", doc_hash, 0)]
       ELSE IF llm_provider \notin {"openai", "openrouter"}
       THEN [db EXCEPT !.log = logged("noprovider", doc_hash, 0)]
       ELSE IF insertFirst /\ (existing # {} \/ old_doc # {})
       THEN [db EXCEPT !.log = logged(IF genOk THEN "generated+raised"
                                      ELSE "fallback+raised", doc_hash, 1),
                       !.raised = TRUE]
       ELSE [summaries  |-> ReplaceRows(db.summaries, existing, new_summary),
             persondocs |-> ReplaceRows(db.persondocs, old_doc, new_doc),
             log        |-> logged(IF genOk THEN "generated" ELSE "fallback",
                                   doc_hash, 1),
             raised     |-> FALSE]

RECURSIVE ProcessAll(_, _, _, _, _)
ProcessAll(db, todo, force, genFail, insertFirst) ==
    IF todo = <<>> \/ db.raised THEN db
    ELSE ProcessAll(ProcessAccount(db, Head(todo), force,
                                   Head(todo).acct \notin genFail, insertFirst),
                    Tail(todo), force, genFail, insertFirst)

\* The account query of process_all: the active accounts by last_fetch_at
\* descending (NULL sorts last); rows with equal keys come in either order.
\* A stand-in for SummaryOrders that takes the longest unfetched accounts
\* first.
SummaryOrdersStalestFirst ==
    {q \in Perms(ActiveRows(accounts)) :
        \A i, j \in 1..Len(q) : i < j => q[i].last_fetch_at <= q[j].last_fetch_at}

SummaryOrders ==
    {q \in Perms(ActiveRows(accounts)) :
        \A i, j \in 1..Len(q) : i < j => q[i].last_fetch_at >= q[j].last_fetch_at}

---------------------------------------------------------------------------
(* Actions *)

\* A stand-in for RecordRun that overwrites the last row of the ledger.
RecordRunOverLast(ledger, run_start, limit) ==
    LET run_record == [started_at |-> run_start, completed_at |-> now,
                       since_hours |-> since_hours, notes |-> limit]
    IN IF ledger = <<>> THEN <<run_record>>
       ELSE [ledger EXCEPT ![Len(ledger)] = run_record]

\* The IngestRun row run_pipeline adds and commits at its end.
RecordRun(ledger, run_start, limit) ==
    Append(ledger, [started_at |-> run_start, completed_at |-> now,
                    since_hours |-> since_hours, notes |-> limit])

\* What the observer records of one run_pipeline call: the decision of
\* _should_refresh_following, whether the refresh read the whole following
\* list, whether an exception left the call, the Account table before and
\* after the follow-list step, the targets in their order, and when a
\* refresh last read the whole list (NULL: never).
NoRun ==
    [kind |-> "none", at |-> NULL, force |-> FALSE, limit |-> 0,
     refresh |-> FALSE, complete |-> FALSE, raised |-> FALSE,
     before |-> {}, listed |-> {}, remote |-> {}, targets |-> <<>>,
     runs_before |-> 0, last_full |-> NULL]

RunEntry(force_fetch, limit, followFail, raised, rows, targets) ==
    LET refresh  == ShouldRefreshFollowing(force_fetch)
        complete == refresh /\ ~raised
                        /\ (\/ followFail = 0
                            \/ /\ followFail > Len(FollowingPages)
                               /\ FollowingPages # <<>>)
    IN [kind |-> "ingest", at |-> now, force |-> force_fetch, limit |-> limit,
        refresh |-> refresh, complete |-> complete, raised |-> raised,
        before |-> accounts, listed |-> rows, remote |-> following,
        targets |-> targets, runs_before |-> Len(runs),
        last_full |-> IF complete THEN now ELSE runLog.last_full]

\* What the observer records of one process_all call: the accounts it took,
\* in their order, the active accounts it chose from, and the run_pipeline
\* call that came just before it, if one did.
PassEntry(limit, todo) ==
    [kind |-> "summarize", at |-> now, limit |-> limit,
     processed |-> [i \in 1..Len(todo) |-> todo[i].acct],
     active |-> ActiveRows(accounts),
     run |-> IF runLog.kind = "ingest" THEN runLog ELSE NoRun,
     last_full |-> runLog.last_full]

InitStore ==
    /\ now = T0
    /\ ticks = 0
    /\ display = [a \in Accts |-> ""]
    /\ nextId = 10
    /\ accounts = {}
    /\ statuses = {}
    /\ summaries = {}
    /\ persondocs = {}
    /\ runs = <<>>
    /\ syncLog = [a \in Accts |-> <<>>]
    /\ sumLog = [a \in Accts |-> <<>>]
    /\ runLog = NoRun

\* Posts that exist before the first run: created one second after and
\* exactly at the cutoff date of a sync at T0.
OldPosts ==
    <<Post(2, T0 - AgeSecs + 1, "orig", Text("a", "")),
      Post(1, T0 - AgeSecs, "orig", Text("a", ""))>>

\* Posts of the last minutes before the first run.
RecentPosts ==
    <<Post(6, T0 - 1, "orig", Text("a", "")),
      Post(5, T0 - 2, "orig", Text("a", "")),
      Post(4, T0 - 3, "orig", Text("a", ""))>>

Tick(d) ==
    /\ ticks < MaxTicks
    /\ now' = now + d
    /\ ticks' = ticks + 1
    /\ UNCHANGED <<remote, store, logs>>

RemotePost(a, kind, c) ==
    /\ nextId < 10 + MaxPosts
    /\ NewestAt(a) < now
    /\ timeline' = [timeline EXCEPT ![a] = <<Post(nextId, now, kind, c)>> \o @]
    /\ nextId' = nextId + 1
    /\ UNCHANGED <<following, display, clock, store, logs>>

\* run_pipeline.  meFail: get_me raises; followFail, fail: see failAt.
\* watch: the observers switched on, of "sync" (syncLog) and "run" (runLog).
\* A network error of get_me is caught nowhere: it leaves run_pipeline and
\* the command.
Ingest(force_fetch, limit, meFail, followFail, fail, watch) ==
    /\ Len(runs) < MaxRuns
    /\ IF ShouldRefreshFollowing(force_fetch) /\ meFail
       THEN /\ runLog' = IF "run" \in watch
                         THEN RunEntry(force_fetch, limit, followFail, TRUE,
                                       accounts, <<>>)
                         ELSE runLog
            /\ UNCHANGED <<store, syncLog, sumLog>>
       ELSE LET rows == IF ShouldRefreshFollowing(force_fetch)
                        THEN SyncFollowingList(accounts, FollowingPages, 1, followFail)
                        ELSE accounts
            IN \E order \in TargetOrders(rows) :
               LET db == SyncTargets([accounts |-> rows, statuses |-> statuses,
                                      log |-> syncLog],
                                     Limited(order, limit), force_fetch, fail)
               IN /\ accounts' = db.accounts
                  /\ statuses' = db.statuses
                  /\ syncLog' = IF "sync" \in watch THEN db.log ELSE syncLog
                  /\ runLog' = IF "run" \in watch
                               THEN RunEntry(force_fetch, limit, followFail,
                                             FALSE, rows, Limited(order, limit))
                               ELSE runLog
                  /\ runs' = RecordRun(runs, now, limit)
                  /\ UNCHANGED <<summaries, persondocs, sumLog>>
    /\ UNCHANGED <<clock, remote>>

Rename(a, n) ==
    /\ display[a] # n
    /\ display' = [display EXCEPT ![a] = n]
    /\ UNCHANGED <<following, timeline, nextId, clock, store, logs>>

\* process_all.  genFail: the accounts whose generation call fails.
Summarize(force, limit, genFail, insertFirst, watch) ==
    /\ \E order \in SummaryOrders :
         LET db == ProcessAll([summaries |-> summaries, persondocs |-> persondocs,
                               log |-> sumLog, raised |-> FALSE],
                              Limited(order, limit), force, genFail, insertFirst)
         IN /\ summaries' = db.summaries
            /\ persondocs' = db.persondocs
            /\ sumLog' = db.log
            /\ runLog' = IF "run" \in watch
                         THEN PassEntry(limit, Limited(order, limit))
                         ELSE runLog
    /\ UNCHANGED <<clock, remote, accounts, statuses, runs, syncLog>>

---------------------------------------------------------------------------
(* The content syncer of one followed account *)

InitSync ==
    /\ InitStore
    /\ following = {"alice"}
    /\ timeline \in {[a \in Accts |-> IF a = "alice" THEN h ELSE <<>>] :
                        h \in {<<>>, OldPosts, RecentPosts}}

NextSync ==
    \/ \E d \in {1, ThrottleSecs} : Tick(d)
    \/ \E kind \in {"orig", "reply", "boost"} :
         RemotePost("alice", kind, Text("a", ""))
    \/ \E f \in BOOLEAN, k \in 0..3 :
         Ingest(f, 0, FALSE, 0, [a \in Accts |-> k], {"sync"})

SpecSync == InitSync /\ [][NextSync]_vars

---------------------------------------------------------------------------
(* The summary cache of one followed account *)

InitSum ==
    /\ InitStore
    /\ following = {"alice"}
    /\ timeline \in {[a \in Accts |-> IF a = "alice" THEN h ELSE <<>>] :
                        h \in {<<>>, RecentPosts}}

NextSum ==
    \/ \E c \in Contents : RemotePost("alice", "orig", c)
    \/ RemotePost("alice", "reply", Text("a", ""))
    \/ \E n \in Names : Rename("alice", n)
    \/ \E f \in BOOLEAN, k \in 0..1 :
         Ingest(f, 0, FALSE, 0, [a \in Accts |-> k], {})
    \/ \E f \in BOOLEAN, g \in SUBSET {"alice"}, x \in BOOLEAN :
         Summarize(f, 0, g, x, {})

SpecSum == InitSum /\ [][NextSum]_vars

---------------------------------------------------------------------------
(* Properties of the summary cache ( SpecSum ) *)

SummaryRows(a) == {r \in summaries : r.account_acct = a}
PersonDocRows(a) == {r \in persondocs : r.account_acct = a}

HasPass(a) == Len(sumLog[a]) > 0
LastPass(a) == sumLog[a][1]
HasTwoPasses(a) == HasPass(a) /\ Len(LastPass(a).prev) > 0
PassBefore(a) == LastPass(a).prev[1]

GenerationFailed(e) == e.outcome \in {"fallback", "fallback+raised"}

\* C1: when the generation call of a pass fails for an account that already
\* had a Summary, the account's Summary and PersonDocument rows are after the
\* pass what they were before it.
C1_FailedGenerationKeepsRows ==
    \A a \in Accts :
        HasPass(a) =>
            LET e == LastPass(a)
            IN (GenerationFailed(e) /\ e.sum_before # {}) =>
                   /\ SummaryRows(a) = e.sum_before
                   /\ PersonDocRows(a) = e.doc_before

\* C2: a pass whose generation call failed leaves no Summary that carries the
\* fingerprint of the document it computed, and the next non-forced pass over
\* the same selected posts calls the generator again.
C2_FailedGenerationNotCached ==
    \A a \in Accts :
        /\ HasPass(a) =>
              LET e == LastPass(a)
              IN GenerationFailed(e) =>
                     \A r \in SummaryRows(a) : r.doc_hash # e.hash
        /\ HasTwoPasses(a) =>
              LET e == LastPass(a)
                  p == PassBefore(a)
              IN (GenerationFailed(p) /\ ~e.force /\ e.selected = p.selected) =>
                     e.calls = 1

\* C3: a non-forced pass that finds a stored Summary with the fingerprint of
\* the freshly built document makes no generation call and leaves the
\* account's Summary and PersonDocument rows as they were.
C3_CacheHitSkipsGeneration ==
    \A a \in Accts :
        HasPass(a) =>
            LET e == LastPass(a)
            IN (~e.force /\ \E r \in e.sum_before : r.doc_hash = e.hash) =>
                   /\ e.calls = 0
                   /\ SummaryRows(a) = e.sum_before
                   /\ PersonDocRows(a) = e.doc_before

\* A non-forced pass met a stored Summary of the current fingerprint, after an
\* earlier pass had generated it.
C3_Witness ==
    \E a \in Accts :
        /\ HasTwoPasses(a)
        /\ ~LastPass(a).force
        /\ LastPass(a).outcome = "cached"
        /\ PassBefore(a).outcome = "generated"
        /\ \E r \in LastPass(a).sum_before : r.doc_hash = LastPass(a).hash

\* C4: two successive non-forced passes that select the same posts of an
\* account compute the same fingerprint, and the second one makes no
\* generation call, whatever ran in between.
C4_SamePostsSameFingerprint ==
    \A a \in Accts :
        HasTwoPasses(a) =>
            LET e == LastPass(a)
                p == PassBefore(a)
            IN (~p.force /\ ~e.force /\ e.selected = p.selected
                    /\ e.selected # <<>>) =>
                   /\ e.hash = p.hash
                   /\ e.calls = 0

\* C5: once a Summary is Fresh, a pass that selects other posts computes
\* another fingerprint and, not forced, makes one generation call; a later
\* non-forced pass that selects the same posts as the pass before makes none.
C5_OneCallPerChange ==
    \A a \in Accts :
        HasTwoPasses(a) =>
            LET e == LastPass(a)
                p == PassBefore(a)
                fresh == \E r \in e.sum_before : r.doc_hash = p.hash
            IN /\ (fresh /\ e.selected # p.selected /\ e.selected # <<>>) =>
                      /\ e.hash # p.hash
                      /\ ~e.force => e.calls = 1
               /\ (~e.force /\ e.selected = p.selected /\ p.selected # <<>>
                       /\ p.outcome # "cached") =>
                      e.calls = 0

\* C15: every handle has at most one Summary row and at most one PersonDoc
\* row, and when it has both they carry the same fingerprint.
C15_OneSummaryOneDocSameFingerprint ==
    \A a \in Accts :
        /\ Cardinality(SummaryRows(a)) <= 1
        /\ Cardinality(PersonDocRows(a)) <= 1
        /\ \A r \in SummaryRows(a), d \in PersonDocRows(a) :
              r.doc_hash = d.doc_hash

\* A pass has replaced the Summary and the PersonDoc an earlier pass had
\* written under another fingerprint.
C15_Witness ==
    /\ HasTwoPasses("alice")
    /\ LastPass("alice").outcome \in {"generated", "fallback"}
    /\ LastPass("alice").sum_before # {}
    /\ LastPass("alice").doc_before # {}
    /\ \A r \in LastPass("alice").sum_before : r.doc_hash # LastPass("alice").hash
    /\ \A r \in SummaryRows("alice") : r.doc_hash = LastPass("alice").hash

---------------------------------------------------------------------------
(* Properties of the content syncer ( SpecSync ) *)

StoredIds == {s.remote_id : s \in statuses}

HasSync(a) == Len(syncLog[a]) > 0
LastSync(a) == syncLog[a][1]
HasTwoSyncs(a) == HasSync(a) /\ Len(LastSync(a).prev) > 0
SyncBefore(a) == LastSync(a).prev[1]
AccountRow(a) == CHOOSE r \in AccountRows(accounts, a) : TRUE

\* What a sync call saw: its cutoff date, the ids stored before it, the page
\* of the i-th remote post, the posts of the k-th page.
Cutoff(e) == e.at - AgeSecs
StoredBefore(e) == StoredIds \ e.new
PageOf(i) == ((i - 1) \div PageLen) + 1
PagePosts(e, k) == {e.remote[i] : i \in {j \in 1..Len(e.remote) : PageOf(j) = k}}

\* The loop reached the i-th remote post: its page was read and no post
\* before it ended the sync at the age cutoff.
Examined(e, i) ==
    /\ i \in 1..Len(e.remote)
    /\ PageOf(i) <= e.pages
    /\ \A j \in 1..(i - 1) : e.remote[j].created_at >= Cutoff(e)

\* C6 (as stated): the second of two successive syncs against the same remote
\* history inserts nothing and, when neither throttled nor forced, stops by
\* the overlap rule after page 1 with one request.
C6_SecondRunStopsOnPageOne ==
    \A a \in Accts :
        HasTwoSyncs(a) =>
            LET e == LastSync(a)
                p == SyncBefore(a)
            IN e.remote = p.remote =>
                   /\ e.new = {}
                   /\ (e.stop # "throttle" /\ ~e.force) =>
                          e.stop = "overlap" /\ e.pages = 1 /\ e.requests = 1

\* Page 1 is not empty and holds no boost and no post older than the cutoff.
PageOneAllStorable(e) ==
    /\ e.remote # <<>>
    /\ \A post \in PagePosts(e, 1) :
           ~post.reblog /\ post.created_at >= Cutoff(e)

\* C6 (amended): a non-forced sync that follows, against the same remote
\* history, a sync that was not throttled and was not ended by a network
\* error or the max-count rule inserts nothing; when it is not throttled,
\* meets no network error, and page 1 is not empty and holds no boost and no
\* post older than the cutoff, it stops by the overlap rule after page 1 with
\* one request.
C6_SecondRunAfterCompleteRun ==
    \A a \in Accts :
        HasTwoSyncs(a) =>
            LET e == LastSync(a)
                p == SyncBefore(a)
            IN (e.remote = p.remote /\ ~e.force
                    /\ p.stop \notin {"throttle", "neterr", "maxcount"}) =>
                   /\ e.new = {}
                   /\ (e.stop \notin {"throttle", "neterr"}
                           /\ PageOneAllStorable(e)) =>
                          e.stop = "overlap" /\ e.pages = 1 /\ e.requests = 1

\* The second sync ran against the history of the first and stopped by the
\* overlap rule after page 1.
C6_Witness ==
    \E a \in Accts :
        /\ HasTwoSyncs(a)
        /\ LastSync(a).remote = SyncBefore(a).remote
        /\ ~LastSync(a).force
        /\ SyncBefore(a).stop \in {"end", "cutoff"}
        /\ PageOneAllStorable(LastSync(a))
        /\ LastSync(a).stop = "overlap"
        /\ LastSync(a).pages = 1

\* C7 (as stated): a post the loop reaches whose created_at equals the cutoff
\* date is not stored and ends the sync; one created a second later is stored.
C7_CutoffDateExcluded ==
    \A a \in Accts :
        HasSync(a) =>
            LET e == LastSync(a)
            IN \A i \in 1..Len(e.remote) :
                   (e.stop # "throttle" /\ Examined(e, i)) =>
                       /\ e.remote[i].created_at = Cutoff(e) =>
                              /\ e.remote[i].id \notin e.new
                              /\ e.stop = "cutoff"
                       /\ (e.remote[i].created_at = Cutoff(e) + 1
                               /\ ~e.remote[i].reblog) =>
                              e.remote[i].id \in StoredIds

\* C7 (amended): a post the loop reaches that is older than the cutoff date,
\* be it by one second, is not stored and ends the sync on its page; a post
\* it reaches that was created at the cutoff date or later is stored unless
\* it is a boost.
C7_OlderThanCutoffExcluded ==
    \A a \in Accts :
        HasSync(a) =>
            LET e == LastSync(a)
            IN \A i \in 1..Len(e.remote) :
                   (e.stop # "throttle" /\ Examined(e, i)) =>
                       /\ e.remote[i].created_at < Cutoff(e) =>
                              /\ e.remote[i].id \notin e.new
                              /\ e.stop = "cutoff"
                              /\ e.pages = PageOf(i)
                       /\ (e.remote[i].created_at >= Cutoff(e)
                               /\ ~e.remote[i].reblog) =>
                              e.remote[i].id \in StoredIds

\* A sync stored a post created exactly at its cutoff date and was ended by
\* the next post, one second older.
C7_Witness ==
    \E a \in Accts :
        /\ HasSync(a)
        /\ LastSync(a).stop = "cutoff"
        /\ \E i \in 1..Len(LastSync(a).remote) :
              /\ LastSync(a).remote[i].created_at = Cutoff(LastSync(a))
              /\ LastSync(a).remote[i].id \in LastSync(a).new
              /\ i < Len(LastSync(a).remote)
              /\ LastSync(a).remote[i + 1].created_at = Cutoff(LastSync(a)) - 1
              /\ LastSync(a).remote[i + 1].id \notin StoredIds

\* C8: a call that is not forced, for an account fetched less than 15 minutes
\* before, makes no request, inserts nothing and leaves last_fetch_at as it
\* was; a forced call makes its requests whatever last_fetch_at is.
C8_ThrottleGate ==
    \A a \in Accts :
        HasSync(a) =>
            LET e == LastSync(a)
            IN /\ (~e.force /\ e.fetch_before # NULL
                       /\ e.at - e.fetch_before < ThrottleSecs) =>
                      /\ e.requests = 0
                      /\ e.new = {}
                      /\ AccountRow(a).last_fetch_at = e.fetch_before
               /\ e.force =>
                      /\ e.stop # "throttle"
                      /\ e.requests >= 1
                      /\ AccountRow(a).last_fetch_at = e.at

\* A call that was not forced came one second after a sync of the account
\* and was skipped.
C8_Witness ==
    \E a \in Accts :
        /\ HasTwoSyncs(a)
        /\ ~LastSync(a).force
        /\ LastSync(a).fetch_before # NULL
        /\ LastSync(a).at - LastSync(a).fetch_before \in 0..(ThrottleSecs - 1)
        /\ LastSync(a).stop = "throttle"
        /\ LastSync(a).requests = 0

\* The posts of page 1 that were not stored before the call.
NewOnPageOne(e) ==
    {post.id : post \in {q \in PagePosts(e, 1) : q.id \notin StoredBefore(e)}}

\* The call was neither forced nor throttled, received pages 1 and 2, page 1
\* held stored posts and at least one new one, page 2 held stored posts only,
\* and no post of the two pages was a boost.
TwoPageOverlapCase(e) ==
    /\ ~e.force
    /\ e.stop # "throttle"
    /\ ~(e.stop = "neterr" /\ e.pages < 2)
    /\ PagePosts(e, 2) # {}
    /\ NewOnPageOne(e) # {}
    /\ \A post \in PagePosts(e, 2) : post.id \in StoredBefore(e)
    /\ \A post \in PagePosts(e, 1) \cup PagePosts(e, 2) : ~post.reblog

\* C9 (as stated): in that case the new posts of page 1 and no others are
\* inserted, the sync stops by the overlap rule after page 2 with two
\* requests, and last_fetch_at is updated.
C9_OverlapStopAfterPageTwo ==
    \A a \in Accts :
        HasSync(a) =>
            LET e == LastSync(a)
            IN TwoPageOverlapCase(e) =>
                   /\ e.new = NewOnPageOne(e)
                   /\ e.stop = "overlap"
                   /\ e.pages = 2
                   /\ e.requests = 2
                   /\ AccountRow(a).last_fetch_at = e.at

\* C9 (amended): the same, for the calls where no post of pages 1 and 2 is
\* older than the cutoff date and the new posts of page 1 are fewer than
\* max_profile_statuses.
C9_OverlapStopAfterPageTwoInWindow ==
    \A a \in Accts :
        HasSync(a) =>
            LET e == LastSync(a)
            IN (/\ TwoPageOverlapCase(e)
                /\ \A post \in PagePosts(e, 1) \cup PagePosts(e, 2) :
                       post.created_at >= Cutoff(e)
                /\ Cardinality(NewOnPageOne(e)) < max_profile_statuses) =>
                   /\ e.new = NewOnPageOne(e)
                   /\ e.stop = "overlap"
                   /\ e.pages = 2
                   /\ e.requests = 2
                   /\ AccountRow(a).last_fetch_at = e.at

\* A sync found one new post before a stored one on page 1, only stored posts
\* on page 2, and stopped there.
C9_Witness ==
    \E a \in Accts :
        /\ HasTwoSyncs(a)
        /\ TwoPageOverlapCase(LastSync(a))
        /\ \E post \in PagePosts(LastSync(a), 1) :
               post.id \in StoredBefore(LastSync(a))
        /\ LastSync(a).new # {}
        /\ LastSync(a).stop = "overlap"
        /\ LastSync(a).pages = 2

\* C10: when the overlap rule ends a sync, every post on the pages it did not
\* read that is not a boost and not older than the cutoff date is stored.
C10_OverlapStopMissesNothing ==
    \A a \in Accts :
        HasSync(a) =>
            LET e == LastSync(a)
            IN e.stop = "overlap" =>
                   \A i \in 1..Len(e.remote) :
                       (PageOf(i) > e.pages /\ ~e.remote[i].reblog
                            /\ e.remote[i].created_at >= Cutoff(e)) =>
                           e.remote[i].id \in StoredIds

\* C20: a call that passed the throttle gate ended at the age cutoff, at the
\* overlap stop, at the max count, at the end of the history or at a network
\* error, and in each case the account's last_fetch_at is the time of the
\* call.
C20_SyncedWhicheverStop ==
    \A a \in Accts :
        (HasSync(a) /\ LastSync(a).stop # "throttle") =>
            /\ LastSync(a).stop \in {"cutoff", "overlap", "maxcount", "end",
                                      "neterr"}
            /\ AccountRows(accounts, a) # {}
            /\ AccountRow(a).last_fetch_at = LastSync(a).at

\* A call for an account never fetched before met the age cutoff in the
\* middle of a page, after it had stored a post of that page, and the
\* account's last_fetch_at is the time of the call.
C20_Witness ==
    /\ HasSync("alice")
    /\ LastSync("alice").stop = "cutoff"
    /\ LastSync("alice").new # {}
    /\ LastSync("alice").fetch_before = NULL
    /\ AccountRow("alice").last_fetch_at = LastSync("alice").at

\* What a sync call met on its k-th page: a post older than the cutoff; only
\* posts stored before the call; the ids it stored from the pages up to k.
PageCut(e, k) == \E q \in PagePosts(e, k) : q.created_at < Cutoff(e)
PageAllExisting(e, k) ==
    /\ PagePosts(e, k) # {}
    /\ \A q \in PagePosts(e, k) : ~q.reblog /\ q.id \in StoredBefore(e)
NewUpTo(e, k) ==
    {e.remote[i].id : i \in {j \in 1..Len(e.remote) : PageOf(j) <= k}} \cap e.new

\* C21: no page before the last page read held a stop condition; on the last
\* page read the age cutoff wins over the overlap stop and the overlap stop
\* over the max count; after a stop no further page is requested; one call
\* stores fewer posts than max_profile_statuses plus one page.
C21_FirstStopConditionWins ==
    \A a \in Accts :
        (HasSync(a) /\ LastSync(a).stop # "throttle") =>
            LET e == LastSync(a)
                k == e.pages
                overlap == ~e.force /\ PageAllExisting(e, k)
            IN /\ \A j \in 1..(k - 1) :
                     /\ ~PageCut(e, j)
                     /\ ~(~e.force /\ PageAllExisting(e, j))
                     /\ Cardinality(NewUpTo(e, j)) < max_profile_statuses
               /\ e.stop = "cutoff" <=> (k >= 1 /\ PageCut(e, k))
               /\ e.stop = "overlap" <=> (k >= 1 /\ ~PageCut(e, k) /\ overlap)
               /\ e.stop = "maxcount" <=>
                     /\ k >= 1 /\ ~PageCut(e, k) /\ ~overlap
                     /\ Cardinality(e.new) >= max_profile_statuses
               /\ e.stop \in {"cutoff", "overlap", "maxcount"} =>
                     e.requests = e.pages
               /\ Cardinality(e.new) < max_profile_statuses + PageLen

\* A call ended at the max count on its second page, with more posts stored
\* than max_profile_statuses and no third request.
C21_Witness ==
    /\ HasSync("alice")
    /\ LastSync("alice").stop = "maxcount"
    /\ LastSync("alice").pages = 2
    /\ LastSync("alice").requests = 2
    /\ Cardinality(LastSync("alice").new) > max_profile_statuses

\* C22: a forced call never ends at the overlap stop, and when it met no
\* network error and stored fewer than max_profile_statuses posts, every
\* remote post of the account that is no boost and not older than the cutoff
\* is stored.
C22_ForcedSyncFillsGaps ==
    \A a \in Accts :
        (HasSync(a) /\ LastSync(a).force) =>
            /\ LastSync(a).stop \notin {"overlap", "throttle"}
            /\ (/\ LastSync(a).stop # "neterr"
                /\ Cardinality(LastSync(a).new) < max_profile_statuses) =>
                  \A i \in 1..Len(LastSync(a).remote) :
                      LET post == LastSync(a).remote[i]
                      IN (~post.reblog /\ post.created_at >= Cutoff(LastSync(a)))
                             => post.id \in StoredIds

\* A forced call came after a call that a network error had ended behind
\* page 1: it met only stored posts on page 1, read on, and stored the post
\* of page 2.
C22_Witness ==
    /\ HasTwoSyncs("alice")
    /\ SyncBefore("alice").stop = "neterr"
    /\ LastSync("alice").force
    /\ LastSync("alice").stop = "end"
    /\ LastSync("alice").pages = 2
    /\ PageAllExisting(LastSync("alice"), 1)
    /\ NewUpTo(LastSync("alice"), 1) = {}
    /\ LastSync("alice").new # {}

\* C23: every post a call stored is a remote post that is no boost and not
\* older than the cutoff of the call; no boost is stored; a boost does not
\* end the call: the posts the loop reached, behind a boost too, are stored
\* when they are no boosts and not older than the cutoff.
C23_OnlyOriginalPostsInWindowStored ==
    \A a \in Accts :
        (HasSync(a) /\ LastSync(a).stop # "throttle") =>
            LET e == LastSync(a)
            IN /\ \A id \in e.new :
                     \E i \in 1..Len(e.remote) :
                         /\ e.remote[i].id = id
                         /\ ~e.remote[i].reblog
                         /\ e.remote[i].created_at >= Cutoff(e)
               /\ \A s \in statuses : ~s.is_boost
               /\ \A i \in 1..Len(e.remote) :
                     /\ e.remote[i].reblog => e.remote[i].id \notin StoredIds
                     /\ (Examined(e, i) /\ ~e.remote[i].reblog
                            /\ e.remote[i].created_at >= Cutoff(e))
                           => e.remote[i].id \in StoredIds

\* A call met a boost at the head of page 1, did not store it, and stored
\* the post behind it on the same page.
C23_Witness ==
    /\ HasSync("alice")
    /\ Len(LastSync("alice").remote) >= 2
    /\ LastSync("alice").remote[1].reblog
    /\ LastSync("alice").remote[1].id \notin StoredIds
    /\ LastSync("alice").remote[2].id \in LastSync("alice").new

---------------------------------------------------------------------------
(* Runs over two followed accounts ( SpecRun ) *)

\* A history whose pages overlap: a post of page 1 comes again on page 2.
OverlappingPosts ==
    <<Post(6, T0 - 1, "orig", Text("a", "")),
      Post(5, T0 - 2, "orig", Text("a", "")),
      Post(5, T0 - 2, "orig", Text("a", "")),
      Post(4, T0 - 3, "orig", Text("a", ""))>>

\* A history that holds a remote id twice in a row, the second time with
\* another text.
RepeatedPosts ==
    <<Post(8, T0 - 1, "orig", Text("a", "")),
      Post(8, T0 - 1, "orig", Text("a", "x")),
      Post(7, T0 - 2, "orig", Text("a", ""))>>

InitRun ==
    /\ InitStore
    /\ following = Accts
    /\ timeline = [a \in Accts |-> IF a = "alice" THEN OverlappingPosts
                                   ELSE RepeatedPosts]

NextRun ==
    \/ Tick(ThrottleSecs)
    \/ \E f, me \in BOOLEAN, ff \in 0..2, k \in 0..2, l \in 0..1 :
         Ingest(f, 0, me, ff, [a \in Accts |-> IF a = "alice" THEN k ELSE l],
                {"sync", "run"})

SpecRun == InitRun /\ [][NextRun]_vars

\* The posts of the pages a sync read that it had to store are stored.
ReadPagesStored(e) ==
    \A i \in 1..Len(e.remote) :
        (Examined(e, i) /\ ~e.remote[i].reblog
             /\ e.remote[i].created_at >= Cutoff(e)) =>
            e.remote[i].id \in StoredIds

\* The run the observer saw went to its end and wrote its IngestRun row.
RunCompleted ==
    /\ runLog.kind = "ingest"
    /\ ~runLog.raised
    /\ Len(runs) = runLog.runs_before + 1
    /\ runs[Len(runs)].started_at = runLog.at

\* C11: in a run that gets past the follow-list step, every account of the
\* target list is synced, in particular those after an account whose
\* pagination a network error ended (on its first request or a later one),
\* the posts of the pages read before the error are stored, and the run
\* writes its IngestRun row.
C11_NetworkErrorEndsOneAccountOnly ==
    (runLog.kind = "ingest" /\ ~runLog.raised) =>
        /\ RunCompleted
        /\ \A i \in 1..Len(runLog.targets) :
               LET a == runLog.targets[i]
               IN /\ HasSync(a)
                  /\ LastSync(a).at = runLog.at
                  /\ LastSync(a).stop = "neterr" => ReadPagesStored(LastSync(a))

\* A run synced two accounts; a network error ended the pagination of the
\* first after page 1, whose posts are stored, and the second was read to
\* the end of its history.
C11_Witness ==
    /\ RunCompleted
    /\ Len(runLog.targets) = 2
    /\ LET a == runLog.targets[1]
           b == runLog.targets[2]
       IN /\ HasSync(a) /\ HasSync(b)
          /\ LastSync(a).stop = "neterr"
          /\ LastSync(a).pages = 1
          /\ LastSync(a).new # {}
          /\ LastSync(a).new \subseteq StoredIds
          /\ LastSync(b).stop = "end"
          /\ LastSync(b).new # {}

\* C16: no two stored posts share a remote id, and a stored post is never
\* changed or deleted by a later step, whether syncs are forced or not and
\* whether pages overlap or repeat an id.
C16_StoredPostsUniqueAndKept ==
    /\ [](\A s, t \in statuses : s.remote_id = t.remote_id => s = t)
    /\ [][statuses \subseteq statuses']_vars

\* A completed run has synced an account whose first page holds one remote
\* id twice, with two contents: the post is stored once, with the content
\* met first, and a later forced run met it again.
C16_Witness ==
    /\ RunCompleted
    /\ HasTwoSyncs("bob")
    /\ LastSync("bob").force
    /\ LastSync("bob").stop = "end"
    /\ LastSync("bob").new = {}
    /\ \E s \in statuses : /\ s.remote_id = RepeatedPosts[1].id
                           /\ s.content_text = RepeatedPosts[1].content
    /\ RepeatedPosts[2].id = RepeatedPosts[1].id
    /\ RepeatedPosts[2].content # RepeatedPosts[1].content

---------------------------------------------------------------------------
(* The follow-list refresh ( SpecFollow ) *)

\* The user stops following an account.
Unfollow(a) ==
    /\ a \in following
    /\ following' = following \ {a}
    /\ UNCHANGED <<display, timeline, nextId, clock, store, logs>>

InitFollow ==
    /\ InitStore
    /\ following = Accts
    /\ timeline = [a \in Accts |-> <<>>]

NextFollow ==
    \/ \E d \in {RefreshSecs - 1, RefreshSecs, ActiveSecs + 1} : Tick(d)
    \/ \E a \in Accts : Unfollow(a)
    \/ \E f, me \in BOOLEAN, limit \in 0..1, ff \in 0..2 :
         Ingest(f, limit, me, ff, [a \in Accts |-> 0], {"run"})

SpecFollow == InitFollow /\ [][NextFollow]_vars

\* The handles a run has to sync: the accounts seen in the last 24 hours,
\* after the follow-list step.
ActiveHandles(r) ==
    {row.acct : row \in {x \in r.listed : x.last_seen_at >= r.at - ActiveSecs}}

Range(seq) == {seq[i] : i \in 1..Len(seq)}

\* C12: whatever request of the follow-list refresh fails (get_me or a page
\* of the following list), no exception leaves run_pipeline: the run syncs
\* the active accounts and writes its IngestRun row.
C12_RefreshFailureStaysInside ==
    runLog.kind = "ingest" =>
        /\ RunCompleted
        /\ runLog.limit = 0 => Range(runLog.targets) = ActiveHandles(runLog)

\* C17: a handle has one Account row and the set of stored handles only
\* grows; a refresh that went through the whole following list has set
\* last_seen_at of every followed account to the time of the run; an account
\* the refresh did not meet keeps its last_seen_at, and is no target of the
\* run once that is more than 24 hours old.
C17_ReconcileKeepsOneRowPerHandle ==
    /\ [](\A r, q \in accounts : r.acct = q.acct => r = q)
    /\ [][{r.acct : r \in accounts} \subseteq {r.acct : r \in accounts'}]_vars
    /\ [](runLog.kind = "ingest" /\ runLog.complete =>
             \A a \in runLog.remote :
                 /\ AccountRows(accounts, a) # {}
                 /\ AccountRow(a).last_seen_at = runLog.at)
    /\ [](runLog.kind = "ingest" =>
             \A r \in runLog.before :
                 r.acct \notin runLog.remote =>
                     /\ AccountRows(accounts, r.acct) # {}
                     /\ AccountRow(r.acct).last_seen_at = r.last_seen_at
                     /\ r.last_seen_at < runLog.at - ActiveSecs =>
                            r.acct \notin Range(runLog.targets))

\* A complete refresh met one stored account again and did not meet another,
\* unfollowed and last seen more than 24 hours before: the first is a target
\* of the run, the second is stored and is none.
C17_Witness ==
    /\ RunCompleted
    /\ runLog.complete
    /\ \E r, q \in runLog.before :
          /\ r.acct \in runLog.remote
          /\ r.last_seen_at < runLog.at
          /\ AccountRow(r.acct).last_seen_at = runLog.at
          /\ r.acct \in Range(runLog.targets)
          /\ q.acct \notin runLog.remote
          /\ q.last_seen_at < runLog.at - ActiveSecs
          /\ q \in accounts
          /\ q.acct \notin Range(runLog.targets)

\* How long before the run the most recently seen account was seen.
SinceLastSeen(r) ==
    r.at - (CHOOSE t \in {x.last_seen_at : x \in r.before} :
                \A x \in r.before : x.last_seen_at <= t)

\* C18: the refresh decision of a run is true when the run is forced;
\* otherwise true when no account is stored, true when the most recent
\* last_seen_at is more than 4 hours old, and false in every other case.
C18_RefreshWhenOlderThanWindow ==
    runLog.kind = "ingest" =>
        runLog.refresh = (\/ runLog.force
                          \/ runLog.before = {}
                          \/ SinceLastSeen(runLog) > RefreshSecs)

\* C18, with the boundary of the code: the decision is true when the run is
\* forced; otherwise true when no account is stored, true when the most
\* recent last_seen_at is 4 hours old or older, and false when it is less
\* than 4 hours old.
C18_RefreshWhenWindowElapsed ==
    runLog.kind = "ingest" =>
        runLog.refresh = (\/ runLog.force
                          \/ runLog.before = {}
                          \/ SinceLastSeen(runLog) >= RefreshSecs)

\* A non-forced run over stored accounts, the most recent of them seen
\* exactly 4 hours before, decided to refresh.
C18_Witness ==
    /\ runLog.kind = "ingest"
    /\ ~runLog.force
    /\ runLog.before # {}
    /\ SinceLastSeen(runLog) = RefreshSecs
    /\ runLog.refresh

\* C19: a run skips the follow-list refresh only when a refresh that read
\* every page of the following list ended less than 4 hours before it.
C19_SkipOnlyAfterFullRefresh ==
    (runLog.kind = "ingest" /\ ~runLog.refresh) =>
        /\ runLog.last_full # NULL
        /\ runLog.at - runLog.last_full < RefreshSecs

\* last_fetch_at of a handle when the run chose its targets.
FetchedBefore(r, a) == (CHOOSE x \in r.listed : x.acct = a).last_fetch_at

\* C24: the targets of a run are accounts seen in the last 24 hours, each
\* once, in ascending last_fetch_at order with the never fetched first; with
\* no limit they are all of these accounts, with a limit the first `limit`
\* of that order; an account that is no target keeps its last_fetch_at.
C24_TargetsAreActiveStalestFirst ==
    (runLog.kind = "ingest" /\ ~runLog.raised) =>
        LET t == runLog.targets
            active == ActiveHandles(runLog)
        IN /\ Range(t) \subseteq active
           /\ \A i, j \in 1..Len(t) : i < j =>
                 /\ t[i] # t[j]
                 /\ FetchedBefore(runLog, t[i]) <= FetchedBefore(runLog, t[j])
           /\ runLog.limit = 0 => Range(t) = active
           /\ runLog.limit # 0 =>
                 /\ Len(t) = Min(runLog.limit, Cardinality(active))
                 /\ \A a \in active \ Range(t), i \in 1..Len(t) :
                       FetchedBefore(runLog, t[i]) <= FetchedBefore(runLog, a)
           /\ \A x \in runLog.listed :
                 x.acct \notin Range(t) =>
                     AccountRow(x.acct).last_fetch_at = x.last_fetch_at

\* A run with limit 1 over two active accounts, one fetched before and one
\* never fetched, took the never fetched one and left the other as it was.
C24_Witness ==
    /\ RunCompleted
    /\ runLog.limit = 1
    /\ Len(runLog.targets) = 1
    /\ FetchedBefore(runLog, runLog.targets[1]) = NULL
    /\ AccountRow(runLog.targets[1]).last_fetch_at = runLog.at
    /\ \E a \in ActiveHandles(runLog) \ Range(runLog.targets) :
          /\ FetchedBefore(runLog, a) # NULL
          /\ AccountRow(a).last_fetch_at = FetchedBefore(runLog, a)

---------------------------------------------------------------------------
(* Interrupted commands ( SpecCrash ) *)

\* What the observer records of a command that an interrupt ended: the
\* account at work, the remote history, the ids and rows stored before, the
\* ids an uninterrupted _sync_author would have left stored, and whether
\* _process_account had rows to replace.
CrashEntry(kind, acct, force, full, replacing) ==
    [kind |-> kind, at |-> now, acct |-> acct, force |-> force,
     remote |-> timeline[acct],
     before |-> {x.remote_id : x \in statuses},
     full |-> full, replacing |-> replacing,
     sum_before |-> {r \in summaries : r.account_acct = acct},
     doc_before |-> {r \in persondocs : r.account_acct = acct},
     last_full |-> runLog.last_full]

\* run_pipeline, interrupted inside _sync_author of its first target.
IngestInterrupted(force_fetch, crashPage, crashPost) ==
    /\ LET rows == IF ShouldRefreshFollowing(force_fetch)
                   THEN SyncFollowingList(accounts, FollowingPages, 1, 0)
                   ELSE accounts
       IN \E order \in TargetOrders(rows) :
            /\ order # <<>>
            /\ LET acct    == order[1]
                   account == CHOOSE r \in AccountRows(rows, acct) : TRUE
                   full    == SyncPages(TimelinePages(acct), 1, 0, acct,
                                        force_fetch, CutoffDate, statuses, 0)
               IN /\ ~Throttled(account, force_fetch)
                  /\ crashPage <= Len(TimelinePages(acct)) + 1
                  /\ accounts' = rows
                  /\ statuses' = SyncPagesInterrupted(
                                     TimelinePages(acct), 1, crashPage, crashPost,
                                     acct, force_fetch, CutoffDate, statuses, 0)
                  /\ syncLog' = [syncLog EXCEPT ![acct] = <<>>]
                  /\ runLog' = CrashEntry("crash-sync", acct, force_fetch,
                                          {x.remote_id : x \in full.rows}, FALSE)
    /\ UNCHANGED <<clock, remote, summaries, persondocs, runs, sumLog>>

\* process_all, interrupted inside _process_account of its first account.
SummarizeInterrupted(force, genOk, step) ==
    /\ \E order \in SummaryOrders :
         /\ order # <<>>
         /\ LET account == order[1]
                before  == [summaries |-> summaries, persondocs |-> persondocs]
                db      == ProcessAccountInterrupted(before, account, force,
                                                     genOk, step)
                sel     == SelectedStatuses(account.acct)
                doc_hash == Sha256(PersonDocumentText(account, sel))
                cached  == {r \in summaries : r.account_acct = account.acct
                                                /\ r.doc_hash = doc_hash}
            IN /\ summaries' = db.summaries
               /\ persondocs' = db.persondocs
               /\ sumLog' = [sumLog EXCEPT ![account.acct] = <<>>]
               /\ runLog' = CrashEntry("crash-sum", account.acct, force, {},
                                       sel # <<>> /\ ~CacheHit(cached, force))
    /\ UNCHANGED <<clock, remote, accounts, statuses, runs, syncLog>>

InitCrash ==
    /\ InitStore
    /\ following = {"alice"}
    /\ timeline \in {[a \in Accts |-> IF a = "alice" THEN h ELSE <<>>] :
                        h \in {OldPosts, RecentPosts}}

NextCrash ==
    \/ \E f \in BOOLEAN :
         Ingest(f, 0, FALSE, 0, [a \in Accts |-> 0], {"sync"})
    \/ \E f \in BOOLEAN, k \in 1..(Len(RecentPosts) + 1), i \in 0..PageLen :
         IngestInterrupted(f, k, i)
    \/ \E f \in BOOLEAN : Summarize(f, 0, {}, FALSE, {})
    \/ \E f, g \in BOOLEAN, step \in 1..2 : SummarizeInterrupted(f, g, step)

SpecCrash == InitCrash /\ [][NextCrash]_vars

\* The ids a sync at the time of the interrupt had to store from page k.
PageNewIds(e, k) ==
    {post.id : post \in {q \in PagePosts(e, k) :
                            /\ q.id \notin e.before
                            /\ ~q.reblog
                            /\ q.created_at >= Cutoff(e)}}

\* C13: after an interrupt, and before the next command touches the rows,
\* the posts stored before the interrupted sync are stored, the new posts of
\* each page are stored all or none, and the Summary and the PersonDoc of
\* the account at work are both as before or both replaced.
C13_InterruptLeavesWholeSteps ==
    /\ (runLog.kind = "crash-sync" /\ syncLog[runLog.acct] = <<>>) =>
          /\ runLog.before \subseteq StoredIds
          /\ \A k \in 1..Len(runLog.remote) :
                \/ PageNewIds(runLog, k) \subseteq StoredIds
                \/ PageNewIds(runLog, k) \cap StoredIds = {}
    /\ (runLog.kind = "crash-sum" /\ sumLog[runLog.acct] = <<>>) =>
          /\ (SummaryRows(runLog.acct) = runLog.sum_before)
                <=> (PersonDocRows(runLog.acct) = runLog.doc_before)

\* An interrupt ended a sync after it had committed the new posts of page 1
\* and before those of page 2 were committed.
C13_Witness ==
    /\ runLog.kind = "crash-sync"
    /\ syncLog[runLog.acct] = <<>>
    /\ PageNewIds(runLog, 1) # {}
    /\ PageNewIds(runLog, 1) \subseteq StoredIds
    /\ PageNewIds(runLog, 2) # {}
    /\ PageNewIds(runLog, 2) \cap StoredIds = {}

\* C14: when a non-forced sync was interrupted and the next sync of the
\* account is a non-forced one that passes the throttle gate and sees the
\* same remote history, the stored posts are afterwards those the
\* uninterrupted sync would have stored.
C14_ResumedSyncStoresSamePosts ==
    (/\ runLog.kind = "crash-sync"
     /\ ~runLog.force
     /\ HasSync(runLog.acct)
     /\ ~HasTwoSyncs(runLog.acct)
     /\ ~LastSync(runLog.acct).force
     /\ LastSync(runLog.acct).stop # "throttle"
     /\ LastSync(runLog.acct).remote = runLog.remote
     /\ LastSync(runLog.acct).at = runLog.at)
        => StoredIds = runLog.full

\* C28: the ledger only grows, by one row in a step; a step adds a row
\* only when run_pipeline went to its end: the accounts of the following
\* list are stored, every active account has been through _sync_author in
\* this run, and the row carries the time of the run as start and end and
\* the since_hours of the call; a run that goes to its end adds a row, and an
\* interrupted run adds none.
C28_OneLedgerRowPerCompletedRun ==
    [][/\ Len(runs') \in {Len(runs), Len(runs) + 1}
       /\ SubSeq(runs', 1, Len(runs)) = runs
       /\ Len(runs') = Len(runs) + 1 =>
             /\ runs'[Len(runs')].started_at = now
             /\ runs'[Len(runs')].completed_at = now
             /\ runs'[Len(runs')].since_hours = since_hours
             /\ \A a \in following : AccountRows(accounts', a) # {}
             /\ \A x \in accounts' :
                   x.last_seen_at >= now - ActiveSecs =>
                       /\ Len(syncLog'[x.acct]) > 0
                       /\ syncLog'[x.acct][1].at = now
       /\ (\E a \in Accts : syncLog'[a] # syncLog[a] /\ Len(syncLog'[a]) > 0)
             => Len(runs') = Len(runs) + 1
       /\ (runLog' # runLog /\ runLog'.kind \in {"crash-sync", "crash-sum"})
             => runs' = runs]_vars

\* Two runs went to their end and the ledger holds their two rows; before
\* the second of them an interrupted run, with posts to store, added none.
C28_Witness ==
    /\ Len(runs) = 2
    /\ runLog.kind = "crash-sync"
    /\ runLog.full # runLog.before
    /\ HasSync("alice")
    /\ ~HasTwoSyncs("alice")
    /\ LastSync("alice").at = runs[2].started_at

---------------------------------------------------------------------------
(* Repeated limited runs ( SpecLimited ) *)

\* A run with a limit whose follow-list step meets no network error (the
\* set of stored accounts is fixed from the first run on); the syncs of its
\* targets may meet network errors and the throttle.
LimitedRun ==
    \E limit \in 1..2, k, l \in 0..1 :
        Ingest(FALSE, limit, FALSE, 0,
               [a \in Accts |-> IF a = "alice" THEN k ELSE l], {"sync", "run"})

\* A run whose get_me request fails.
FailedRun ==
    \E limit \in 1..2 :
        Ingest(FALSE, limit, TRUE, 0, [a \in Accts |-> 0], {"sync", "run"})

NextLimited ==
    \/ Tick(ThrottleSecs - 1)
    \/ LimitedRun
    \/ FailedRun

\* Runs are repeated: a limited run that can be made is made.
SpecLimited == InitFollow /\ [][NextLimited]_vars /\ WF_vars(LimitedRun)

Stored(a) == AccountRows(accounts, a) # {}
Fetched(a) == Stored(a) /\ AccountRow(a).last_fetch_at # NULL

\* C25: under repeated limited runs every stored account, all of them active,
\* is eventually synced: its last_fetch_at is eventually set.
C25_NoActiveAccountStarved ==
    \A a \in Accts : Stored(a) ~> Fetched(a)

\* A second run with limit 1 has synced the account the first run with
\* limit 1 had left out, and a network error ended that sync on its first
\* request.
C25_Witness ==
    /\ RunCompleted
    /\ runLog.limit = 1
    /\ runLog.runs_before = 1
    /\ \A a \in Accts : Fetched(a)
    /\ \E a \in Accts :
          /\ runLog.targets = <<a>>
          /\ FetchedBefore(runLog, a) = NULL
          /\ \E b \in Accts \ {a} : FetchedBefore(runLog, b) # NULL
          /\ LastSync(a).stop = "neterr"

---------------------------------------------------------------------------
(* A limited run and the regeneration pass behind it ( SpecBatch ) *)

NextBatch ==
    \/ Tick(ThrottleSecs - 1)
    \/ \E limit \in 1..2 :
         Ingest(FALSE, limit, FALSE, 0, [a \in Accts |-> 0], {"sync", "run"})
    \/ \E limit \in 1..2 : Summarize(FALSE, limit, {}, FALSE, {"run"})

SpecBatch == InitFollow /\ [][NextBatch]_vars

\* A pass with a limit came right behind a run with the same limit.
PassBehindRun ==
    /\ runLog.kind = "summarize"
    /\ runLog.run.kind = "ingest"
    /\ ~runLog.run.raised
    /\ runLog.limit # 0
    /\ runLog.limit = runLog.run.limit

\* The targets of a run that passed the throttle gate.
SyncedIn(r) == {a \in Range(r.targets) : LastSync(a).stop # "throttle"}

FetchedAt(a) == AccountRow(a).last_fetch_at

\* C26: a pass with limit N right behind a run with limit N processes the
\* targets of that run.
C26_PassProcessesTargetsOfRun ==
    PassBehindRun => Range(runLog.processed) = Range(runLog.run.targets)

\* C26, with the throttle gate: the pass takes the active accounts in
\* descending last_fetch_at order, the accounts the run synced bear the
\* latest last_fetch_at of all, so none of them is left out for an account
\* fetched earlier; and the pass processes the targets of the run when none
\* of them was throttled and every other account was fetched earlier or
\* never.
C26_PassProcessesSyncedFirst ==
    PassBehindRun =>
        LET p == runLog.processed
            r == runLog.run
            active == {x.acct : x \in runLog.active}
        IN /\ \A i, j \in 1..Len(p) : i < j => FetchedAt(p[i]) >= FetchedAt(p[j])
           /\ \A a \in Range(p), b \in active \ Range(p) :
                 FetchedAt(a) >= FetchedAt(b)
           /\ \A a \in SyncedIn(r) : FetchedAt(a) = r.at
           /\ \A x \in accounts : x.last_fetch_at <= r.at
           /\ \A a \in SyncedIn(r) \ Range(p), b \in Range(p) : FetchedAt(b) = r.at
           /\ (/\ SyncedIn(r) = Range(r.targets)
               /\ \A x \in accounts : x.acct \notin Range(r.targets) =>
                                         x.last_fetch_at < r.at)
                 => Range(p) = Range(r.targets)

\* A pass with limit 1 behind a run with limit 1 processed the one account
\* the run had synced, and not the account fetched by an earlier run.
C26_Witness ==
    /\ PassBehindRun
    /\ runLog.limit = 1
    /\ Len(runLog.processed) = 1
    /\ runLog.processed = runLog.run.targets
    /\ SyncedIn(runLog.run) = Range(runLog.run.targets)
    /\ \E x \in accounts : /\ x.acct \notin Range(runLog.processed)
                          /\ x.last_fetch_at # NULL
                          /\ x.last_fetch_at < runLog.run.at

---------------------------------------------------------------------------
(* The lifecycle of a Summary ( SpecLife ) *)

InitLife ==
    /\ InitStore
    /\ following = {"alice"}
    /\ timeline = [a \in Accts |-> IF a = "alice" THEN RecentPosts ELSE <<>>]

NextLife ==
    \/ \E n \in Names : Rename("alice", n)
    \/ \E f \in BOOLEAN : Ingest(f, 0, FALSE, 0, [a \in Accts |-> 0], {})
    \/ \E k \in 1..(Len(RecentPosts) + 1) : IngestInterrupted(TRUE, k, 0)
    \/ \E f \in BOOLEAN, g \in SUBSET {"alice"} : Summarize(f, 0, g, FALSE, {})

SpecLife == InitLife /\ [][NextLife]_vars

\* The fingerprint _process_account would compute for the account now, and
\* the three states of the account's Summary.
DocHash(a) == Sha256(PersonDocumentText(AccountRow(a), SelectedStatuses(a)))
Absent(a) == SummaryRows(a) = {}
Fresh(a) == \E r \in SummaryRows(a) : r.doc_hash = DocHash(a)
Stale(a) == ~Absent(a) /\ ~Fresh(a)

\* C27: in every step, an account that has a Summary keeps one; a step that
\* writes Summary or PersonDoc rows leaves the accounts, the posts and the
\* run ledger alone; and a stale Summary is fresh after the step only when
\* the step has replaced the Summary row and left accounts and posts alone.
C27_SummaryLifecycle ==
    [][\A a \in Accts :
          /\ ~Absent(a) => ~Absent(a)'
          /\ (summaries' # summaries \/ persondocs' # persondocs) =>
                UNCHANGED <<accounts, statuses, runs>>
          /\ (Stale(a) /\ Fresh(a)') =>
                /\ SummaryRows(a)' # SummaryRows(a)
                /\ UNCHANGED <<accounts, statuses>>]_vars

=============================================================================
